---- MODULE Spec2Model ----
(***************************************************************************)
(* Maritime route computation engine (routes.ts): nearest-port resolver,   *)
(* curated and synthesized route generation, great-circle distance; the    *)
(* 2D map (GlobalMap2D): its segment rendering (WrapAwareLine) and its     *)
(* route selection under DemoPage; and the chat subscriptions of           *)
(* messageService.js.                                                      *)
(*                                                                         *)
(* Numbers.  The source computes in IEEE doubles; here every real is a     *)
(* fixed-point integer.  Coordinates are hundredths of a degree (the       *)
(* catalog is written with two decimals), angles and the values of         *)
(* sin/cos/sqrt/atan2 carry four decimals, a distance is kilometres with   *)
(* four decimals.  Every division rounds to nearest, symmetrically in the  *)
(* sign, as floating-point rounding does.  A coordinate is <<lng, lat>>.   *)
(* WrapAwareLine's one division is kept as an unrounded fraction.          *)
(***************************************************************************)
EXTENDS Integers, Sequences, FiniteSets, TLC

VARIABLES
  catalog,     \* MAJOR_PORTS, the port directory
  pc,          \* "idle", or "returned" once a call has run to its end
  call,        \* the function called and its arguments
  originPort,  \* calculateRoutes' local originPort
  destPort,    \* calculateRoutes' local destPort
  ret,         \* what the call returned, or that it threw
  seen,        \* history: the recorded calls, each with what it returned
  page,        \* DemoPage's state
  map,         \* GlobalMap2D's state and its effects waiting to run
  svc          \* the chat subscriptions of messageService

vars == <<catalog, pc, call, originPort, destPort, ret, seen, page, map, svc>>

\* The variables of the route engine and of its callers' records.
engine == <<catalog, pc, call, originPort, destPort, ret, seen>>

----------------------------------------------------------------------------
(* Fixed-point arithmetic                                                  *)

\* One unit of a four-decimal fixed-point number.
One == 100 * 100

\* a / b rounded to nearest, ties away from zero (b > 0).
RDiv(a, b) == IF a >= 0 THEN (a + b \div 2) \div b
                        ELSE -((b \div 2 - a) \div b)

Abs(x) == IF x < 0 THEN -x ELSE x

\* Math.PI, four decimals.
PI == 31416

HalfPI == PI \div 2

\* d * Math.PI / 180, d in hundredths of a degree.
toRad(d) == RDiv(d * PI, 180 * 100)

\* x - x^3/3! + x^5/5! - ... for 0 <= x <= PI/2; t is the current term x^n/n!.
RECURSIVE SinSeries(_, _, _)
SinSeries(t, n, x2) ==
  IF t = 0 THEN 0
  ELSE t - SinSeries(RDiv(t * x2, One * (n + 1) * (n + 2)), n + 2, x2)

\* Math.sin on [-PI, PI].
RECURSIVE Sin(_)
Sin(x) ==
  IF x < 0 THEN -Sin(-x)
  ELSE IF x > HalfPI THEN Sin(PI - x)
  ELSE SinSeries(x, 1, RDiv(x * x, One))

\* Math.cos on [-PI/2, PI/2]: 1 - x^2/2! + x^4/4! - ...
Cos(x) ==
  LET ax == Abs(x)
      x2 == RDiv(ax * ax, One)
  IN  One - SinSeries(RDiv(x2, 2), 2, x2)

\* Newton's iteration for the integer square root, from a guess above it.
RECURSIVE SqrtIter(_, _)
SqrtIter(n, x) ==
  LET y == (x + n \div x) \div 2
  IN  IF y >= x THEN x ELSE SqrtIter(n, y)

\* Math.sqrt of an eight-decimal number in [0, 1], to four decimals.
\* A negative argument (1 - a with a rounded above 1, near antipodes; NaN
\* in the source) is read as 0.
Sqrt(n) ==
  IF n <= 0 THEN 0
  ELSE LET r == SqrtIter(n, One + 1)
       IN  IF n - r * r > r THEN r + 1 ELSE r

\* t - t^3/3 + t^5/5 - ... for 0 <= t <= tan(PI/8); p is the current power.
RECURSIVE AtanSeries(_, _, _)
AtanSeries(p, n, t2) ==
  IF p = 0 THEN 0
  ELSE RDiv(p, n) - AtanSeries(RDiv(p * t2, One), n + 2, t2)

AtanSmall(t) ==
  LET at == Abs(t)
      v  == AtanSeries(at, 1, RDiv(at * at, One))
  IN  IF t < 0 THEN -v ELSE v

\* atan on [0, 1]: above tan(PI/8), atan t = PI/4 + atan((t - 1)/(t + 1)).
Atan01(t) ==
  IF t > 4142 THEN RDiv(PI, 4) + AtanSmall(RDiv((t - One) * One, t + One))
  ELSE AtanSmall(t)

\* Math.atan2(y, x) for y >= 0, x >= 0.
Atan2(y, x) ==
  IF y = 0 THEN 0
  ELSE IF y <= x THEN Atan01(RDiv(y * One, x))
  ELSE HalfPI - Atan01(RDiv(x * One, y))

\* Math.round of a non-negative four-decimal number: nearest integer, half up.
MathRound(x) == (x + One \div 2) \div One

----------------------------------------------------------------------------
(* Geo utilities                                                           *)

\* Mean Earth radius, km.
R == 6371

\* The cosine of the first latitude taken twice.
calculateDistance_OneLatitude(lat1, lon1, lat2, lon2) ==
  LET dLat == toRad(lat2 - lat1)
      dLon == toRad(lon2 - lon1)
      sLat == Sin(RDiv(dLat, 2))
      sLon == Sin(RDiv(dLon, 2))
      cc   == RDiv(Cos(toRad(lat1)) * Cos(toRad(lat1)), One)
      a    == sLat * sLat + RDiv(cc * sLon, One) * sLon
      c    == 2 * Atan2(Sqrt(a), Sqrt(One * One - a))
  IN  R * c

\* Haversine distance in km (four decimals); arguments in hundredths of a
\* degree, in the source's order (lat1, lon1, lat2, lon2).
calculateDistance(lat1, lon1, lat2, lon2) ==
  LET dLat == toRad(lat2 - lat1)
      dLon == toRad(lon2 - lon1)
      sLat == Sin(RDiv(dLat, 2))
      sLon == Sin(RDiv(dLon, 2))
      cc   == RDiv(Cos(toRad(lat1)) * Cos(toRad(lat2)), One)
      a    == sLat * sLat + RDiv(cc * sLon, One) * sLon
      c    == 2 * Atan2(Sqrt(a), Sqrt(One * One - a))
  IN  R * c

\* Sum of the legs of a waypoint list, rounded once at the end.
RECURSIVE SumLegs(_, _)
SumLegs(waypoints, i) ==
  IF i >= Len(waypoints) THEN 0
  ELSE calculateDistance(waypoints[i][2], waypoints[i][1],
                         waypoints[i + 1][2], waypoints[i + 1][1])
       + SumLegs(waypoints, i + 1)

\* Every leg rounded to a whole kilometre before it is added.
RECURSIVE SumRoundedLegs(_, _)
SumRoundedLegs(waypoints, i) ==
  IF i >= Len(waypoints) THEN 0
  ELSE MathRound(calculateDistance(waypoints[i][2], waypoints[i][1],
                                   waypoints[i + 1][2], waypoints[i + 1][1]))
       + SumRoundedLegs(waypoints, i + 1)

calculateTotalDistance_PerLeg(waypoints) == SumRoundedLegs(waypoints, 1)

calculateTotalDistance(waypoints) == MathRound(SumLegs(waypoints, 1))

----------------------------------------------------------------------------
(* Port directory                                                          *)

MAJOR_PORTS == <<
  [name |-> "Rotterdam", country |-> "Netherlands", coordinates |-> <<447, 5192>>, region |-> "Europe"],
  [name |-> "Hamburg", country |-> "Germany", coordinates |-> <<999, 5355>>, region |-> "Europe"],
  [name |-> "Antwerp", country |-> "Belgium", coordinates |-> <<440, 5122>>, region |-> "Europe"],
  [name |-> "Le Havre", country |-> "France", coordinates |-> <<11, 4949>>, region |-> "Europe"],
  [name |-> "Barcelona", country |-> "Spain", coordinates |-> <<217, 4138>>, region |-> "Europe"],
  [name |-> "Piraeus", country |-> "Greece", coordinates |-> <<2365, 3794>>, region |-> "Europe"],
  [name |-> "Istanbul", country |-> "Turkey", coordinates |-> <<2897, 4101>>, region |-> "Europe"],
  [name |-> "Gdansk", country |-> "Poland", coordinates |-> <<1865, 5435>>, region |-> "Europe"],
  [name |-> "Dubai", country |-> "UAE", coordinates |-> <<5527, 2520>>, region |-> "Middle East"],
  [name |-> "Jeddah", country |-> "Saudi Arabia", coordinates |-> <<3919, 2154>>, region |-> "Middle East"],
  [name |-> "Port Said", country |-> "Egypt", coordinates |-> <<3228, 3126>>, region |-> "Middle East"],
  [name |-> "Haifa", country |-> "Israel", coordinates |-> <<3499, 3282>>, region |-> "Middle East"],
  [name |-> "Singapore", country |-> "Singapore", coordinates |-> <<10385, 129>>, region |-> "Asia"],
  [name |-> "Hong Kong", country |-> "China", coordinates |-> <<11417, 2232>>, region |-> "Asia"],
  [name |-> "Shanghai", country |-> "China", coordinates |-> <<12147, 3123>>, region |-> "Asia"],
  [name |-> "Busan", country |-> "South Korea", coordinates |-> <<12904, 3518>>, region |-> "Asia"],
  [name |-> "Tokyo", country |-> "Japan", coordinates |-> <<13977, 3568>>, region |-> "Asia"],
  [name |-> "Mumbai", country |-> "India", coordinates |-> <<7288, 1908>>, region |-> "Asia"],
  [name |-> "Colombo", country |-> "Sri Lanka", coordinates |-> <<7985, 693>>, region |-> "Asia"],
  [name |-> "Jakarta", country |-> "Indonesia", coordinates |-> <<10685, -621>>, region |-> "Asia"],
  [name |-> "Cape Town", country |-> "South Africa", coordinates |-> <<1842, -3392>>, region |-> "Africa"],
  [name |-> "Durban", country |-> "South Africa", coordinates |-> <<3103, -2986>>, region |-> "Africa"],
  [name |-> "Lagos", country |-> "Nigeria", coordinates |-> <<339, 645>>, region |-> "Africa"],
  [name |-> "Djibouti", country |-> "Djibouti", coordinates |-> <<4315, 1159>>, region |-> "Africa"],
  [name |-> "Mombasa", country |-> "Kenya", coordinates |-> <<3966, -405>>, region |-> "Africa"],
  [name |-> "New York", country |-> "USA", coordinates |-> <<-7401, 4071>>, region |-> "Americas"],
  [name |-> "Los Angeles", country |-> "USA", coordinates |-> <<-11824, 3405>>, region |-> "Americas"],
  [name |-> "Miami", country |-> "USA", coordinates |-> <<-8019, 2576>>, region |-> "Americas"],
  [name |-> "Houston", country |-> "USA", coordinates |-> <<-9536, 2976>>, region |-> "Americas"],
  [name |-> "Santos", country |-> "Brazil", coordinates |-> <<-4633, -2396>>, region |-> "Americas"],
  [name |-> "Buenos Aires", country |-> "Argentina", coordinates |-> <<-5838, -3460>>, region |-> "Americas"],
  [name |-> "Panama City", country |-> "Panama", coordinates |-> <<-7953, 898>>, region |-> "Americas"],
  [name |-> "Vancouver", country |-> "Canada", coordinates |-> <<-12312, 4928>>, region |-> "Americas"],
  [name |-> "Sydney", country |-> "Australia", coordinates |-> <<15121, -3387>>, region |-> "Oceania"],
  [name |-> "Melbourne", country |-> "Australia", coordinates |-> <<14496, -3781>>, region |-> "Oceania"],
  [name |-> "Auckland", country |-> "New Zealand", coordinates |-> <<17476, -3685>>, region |-> "Oceania"],
  [name |-> "Suez Canal", country |-> "Egypt", coordinates |-> <<3235, 3044>>, region |-> "Middle East"],
  [name |-> "Strait of Malacca", country |-> "Malaysia", coordinates |-> <<10035, 250>>, region |-> "Asia"],
  [name |-> "Strait of Gibraltar", country |-> "Spain", coordinates |-> <<-536, 3614>>, region |-> "Europe"]
>>


\* The names of a list of ports, as a set (new Set(avoid.map(p => p.name))).
Names(ports) == {ports[i].name : i \in 1..Len(ports)}

\* let minDistance = Infinity: above every distance.
Infinity == 2147483647

\* dist <= minDistance: among equally near ports the last one wins.
IsNearer_OrEqual(dist, minDistance) == dist <= minDistance

\* if (dist < minDistance): a strictly nearer port replaces the current one.
IsNearer(dist, minDistance) == dist < minDistance

\* The scan of findNearestPort from catalog index i on.
RECURSIVE NearestScan(_, _, _, _, _)
NearestScan(coord, excludeNames, i, nearest, minDistance) ==
  IF i > Len(catalog) THEN nearest
  ELSE LET port == catalog[i]
           dist == calculateDistance(coord[2], coord[1],
                                     port.coordinates[2], port.coordinates[1])
       IN  IF port.name \in excludeNames
             THEN NearestScan(coord, excludeNames, i + 1, nearest, minDistance)
           ELSE IF IsNearer(dist, minDistance)
             THEN NearestScan(coord, excludeNames, i + 1, port, dist)
           ELSE NearestScan(coord, excludeNames, i + 1, nearest, minDistance)

\* nearest starts as MAJOR_PORTS[0] and is returned as it stands when no port
\* passes the exclusion test.
findNearestPort(coord, excludeNames) ==
  NearestScan(coord, excludeNames, 1, catalog[1], Infinity)

----------------------------------------------------------------------------
(* Route synthesis                                                         *)

InSeq(x, s) == \E k \in 1..Len(s) : s[k] = x

\* The scan replacing the current port on a distance that is no larger: the
\* last of several nearest candidates wins.
RECURSIVE BestScan_OrEqual(_, _, _, _, _, _)
BestScan_OrEqual(lat, lng, candidates, k, best, minD) ==
  IF k > Len(candidates) THEN best
  ELSE LET p == candidates[k]
           d == calculateDistance(lat, lng, p.coordinates[2], p.coordinates[1])
       IN  IF d <= minD THEN BestScan_OrEqual(lat, lng, candidates, k + 1, p, d)
           ELSE BestScan_OrEqual(lat, lng, candidates, k + 1, best, minD)

\* The inner loop of findIntermediatePorts over the candidates from index k on.
RECURSIVE BestScan(_, _, _, _, _, _)
BestScan(lat, lng, candidates, k, best, minD) ==
  IF k > Len(candidates) THEN best
  ELSE LET p == candidates[k]
           d == calculateDistance(lat, lng, p.coordinates[2], p.coordinates[1])
       IN  IF d < minD THEN BestScan(lat, lng, candidates, k + 1, p, d)
           ELSE BestScan(lat, lng, candidates, k + 1, best, minD)

\* The region allow-list ignored: every un-used port is a candidate.
Candidates_Unfiltered(regions, used) ==
  SelectSeq(catalog, LAMBDA p : p.name \notin used)

\* The candidates of one slot (filter keeps catalog order): the un-used ports, narrowed to the allowed
\* regions when that leaves any.  regions = <<>> stands for undefined too:
\* an empty allow-list filters everything out and the code falls back.
Candidates(regions, used) ==
  LET unused    == SelectSeq(catalog, LAMBDA p : p.name \notin used)
      regFilter == SelectSeq(unused, LAMBDA p : InSeq(p.region, regions))
  IN  IF Len(regFilter) > 0 THEN regFilter ELSE unused

\* The target point of slot i: origin + (destination - origin) * i / (count + 1),
\* to a hundredth of a degree.
SlotTarget(origin, destination, count, i) ==
  << origin[1] + RDiv((destination[1] - origin[1]) * i, count + 1),
     origin[2] + RDiv((destination[2] - origin[2]) * i, count + 1) >>

\* The chosen port is not marked used.
UsedAdd_Forgotten(used, best) == used

\* used.add(best.name)
UsedAdd(used, best) == used \cup {best.name}

\* The slot loop of findIntermediatePorts from slot i on.  With no candidate
\* left, best is undefined and used.add(best.name) throws a TypeError.
RECURSIVE SlotLoop(_, _, _, _, _, _, _)
SlotLoop(origin, destination, count, regions, i, result, used) ==
  IF i > count THEN [threw |-> FALSE, value |-> result]
  ELSE LET target == SlotTarget(origin, destination, count, i)
           lat == target[2]
           lng == target[1]
           candidates == Candidates(regions, used)
       IN  IF Len(candidates) = 0 THEN [threw |-> TRUE, value |-> <<>>]
           ELSE LET best == BestScan(lat, lng, candidates, 1, candidates[1], Infinity)
                IN  SlotLoop(origin, destination, count, regions, i + 1,
                             Append(result, best), UsedAdd(used, best))

\* The slot loop entered at i = 0 instead of i = 1.
findIntermediatePorts_FromZero(origin, destination, count, regions, avoid) ==
  SlotLoop(origin, destination, count, regions, 0, <<>>, Names(avoid))

\* The avoid list dropped: used starts empty.
findIntermediatePorts_NoAvoid(origin, destination, count, regions, avoid) ==
  SlotLoop(origin, destination, count, regions, 1, <<>>, {})

findIntermediatePorts(origin, destination, count, regions, avoid) ==
  SlotLoop(origin, destination, count, regions, 1, <<>>, Names(avoid))

\* ports.map(p => p.coordinates)
CoordsOf(ports) == [i \in 1..Len(ports) |-> ports[i].coordinates]

\* ports.map(p => p.name)
NamesOf(ports) == [i \in 1..Len(ports) |-> ports[i].name]

\* Math.floor in place of Math.round for the estimated time.
MkRoute_Floor(id, name, riskLevel, color, strokeWidth, waypoints, waypointNames, distance, divisor, description) ==
  [id |-> id, name |-> name, riskLevel |-> riskLevel, color |-> color,
   strokeWidth |-> strokeWidth, waypoints |-> waypoints,
   waypointNames |-> waypointNames, distance |-> distance,
   estimatedTime |-> distance \div divisor, description |-> description]

\* The id built from the risk level alone instead of a literal per route.
MkRoute_IdByRisk(id, name, riskLevel, color, strokeWidth, waypoints, waypointNames, distance, divisor, description) ==
  [id |-> riskLevel, name |-> name, riskLevel |-> riskLevel, color |-> color,
   strokeWidth |-> strokeWidth, waypoints |-> waypoints,
   waypointNames |-> waypointNames, distance |-> distance,
   estimatedTime |-> RDiv(distance, divisor), description |-> description]

\* One Route record; strokeWidth is in tenths, estimatedTime is
\* Math.round(distance / divisor).
MkRoute(id, name, riskLevel, color, strokeWidth, waypoints, waypointNames, distance, divisor, description) ==
  [id |-> id, name |-> name, riskLevel |-> riskLevel, color |-> color,
   strokeWidth |-> strokeWidth, waypoints |-> waypoints,
   waypointNames |-> waypointNames, distance |-> distance,
   estimatedTime |-> RDiv(distance, divisor), description |-> description]

\* The destination's name left out of waypointNames.
SynthRoute_NoDestName(id, name, riskLevel, color, strokeWidth, oPort, dPort, intermediates, divisor, description) ==
  LET waypoints == <<oPort.coordinates>> \o CoordsOf(intermediates)
                     \o <<dPort.coordinates>>
  IN  MkRoute(id, name, riskLevel, color, strokeWidth, waypoints,
              <<oPort.name>> \o NamesOf(intermediates),
              calculateTotalDistance(waypoints), divisor, description)

\* The block calculateDynamicRoutes repeats for each of its three routes:
\* the waypoints and their names from origin, intermediates and destination,
\* the total distance of the waypoints, and the pushed Route.
SynthRoute(id, name, riskLevel, color, strokeWidth, oPort, dPort, intermediates, divisor, description) ==
  LET waypoints == <<oPort.coordinates>> \o CoordsOf(intermediates)
                     \o <<dPort.coordinates>>
  IN  MkRoute(id, name, riskLevel, color, strokeWidth, waypoints,
              <<oPort.name>> \o NamesOf(intermediates) \o <<dPort.name>>,
              calculateTotalDistance(waypoints), divisor, description)

\* A call that ended in a thrown TypeError: nothing is returned.
Threw == [threw |-> TRUE, value |-> <<>>]

\* The picked ports pushed onto the caller's avoid list instead of being
\* noted in the local set.
AvoidAfter_Pushed(avoid, result) == avoid \o result

\* The caller's avoid list once findIntermediatePorts has returned: the
\* function maps it into a Set of its own (used) and writes only to that Set
\* and to its own result array.
AvoidAfter(avoid, result) == avoid

\* calculateDynamicRoutes from its third findIntermediatePorts call on;
\* safeIntermediates is that list as the second call left it.
DynamicRoutesFrom3(oPort, dPort, safe, safeIntermediates, alt, express) ==
  IF express.threw THEN Threw ELSE
  [threw |-> FALSE,
   safeIntermediates |-> safeIntermediates,
   value |->
     << SynthRoute("dyn-safe-1", "Standard Corridor", "low", "#5a9a7a", 20,
                   oPort, dPort, safe.value, 35,
                   "Calculated secure route via major hubs"),
        SynthRoute("dyn-safe-2", "Alternative Corridor", "low", "#6ba889", 20,
                   oPort, dPort, alt.value, 35,
                   "Secondary secure routing option"),
        SynthRoute("dyn-express", "Express Route", "medium", "#e8a547", 25,
                   oPort, dPort, express.value, 38,
                   "Direct routing with moderate risk profile") >>]

\* calculateDynamicRoutes from its second findIntermediatePorts call on.
DynamicRoutesFrom2(oPort, dPort, safe, alt) ==
  IF alt.threw THEN Threw ELSE
  DynamicRoutesFrom3(oPort, dPort, safe, AvoidAfter(safe.value, alt.value), alt,
    findIntermediatePorts(oPort.coordinates, dPort.coordinates, 1, <<>>,
                          AvoidAfter(safe.value, alt.value) \o alt.value))

\* calculateDynamicRoutes once the Standard route's ports are found.
DynamicRoutesFrom1(oPort, dPort, safe) ==
  IF safe.threw THEN Threw ELSE
  DynamicRoutesFrom2(oPort, dPort, safe,
    findIntermediatePorts(oPort.coordinates, dPort.coordinates, 2,
                          <<"Europe", "Asia">>, safe.value))

calculateDynamicRoutes(oPort, dPort) ==
  DynamicRoutesFrom1(oPort, dPort,
    findIntermediatePorts(oPort.coordinates, dPort.coordinates, 3,
                          <<"Africa", "Middle East", "Asia">>, <<>>))

\* The pre-authored waypoint sequences of routeData.ts, one waypoint per
\* waypoint name of the curated route that uses it.
PATH_CAPE_OF_GOOD_HOPE ==
  <<<<12147, 3123>>, <<10385, 129>>, <<1842, -3392>>, <<447, 5192>>, <<999, 5355>>>>

PATH_SUEZ_CANAL ==
  <<<<12147, 3123>>, <<10385, 129>>, <<3235, 3044>>, <<999, 5355>>>>

PATH_PANAMA ==
  <<<<12147, 3123>>, <<-7953, 898>>, <<999, 5355>>>>

PATH_ARCTIC_NSR ==
  <<<<12147, 3123>>, <<-16900, 6575>>, <<9000, 8000>>, <<999, 5355>>>>

getDetailedShanghaiHamburgRoutes ==
  LET distCape   == calculateTotalDistance(PATH_CAPE_OF_GOOD_HOPE)
      distSuez   == calculateTotalDistance(PATH_SUEZ_CANAL)
      distPanama == calculateTotalDistance(PATH_PANAMA)
      distArctic == calculateTotalDistance(PATH_ARCTIC_NSR)
  IN  << MkRoute("fixed-cape", "Cape of Good Hope (Standard)", "low", "#2ecc71", 30,
                 PATH_CAPE_OF_GOOD_HOPE,
                 <<"Shanghai", "Singapore", "Cape Town", "Rotterdam", "Hamburg">>,
                 distCape, 35,
                 "Primary safe route via Africa. Avoids Red Sea conflict."),
         MkRoute("fixed-suez", "Suez Canal (Red Sea)", "high", "#e74c3c", 30,
                 PATH_SUEZ_CANAL,
                 <<"Shanghai", "Singapore", "Suez Canal", "Hamburg">>,
                 distSuez, 32,
                 "Shortest but High Risk due to regional conflict."),
         MkRoute("fixed-panama", "Panama Canal (Westbound)", "medium", "#f1c40f", 25,
                 PATH_PANAMA,
                 <<"Shanghai", "Panama Canal", "Hamburg">>,
                 distPanama, 38,
                 "All-water alternative avoiding Middle East."),
         MkRoute("fixed-arctic", "Northern Sea Route (Arctic)", "high", "#3498db", 20,
                 PATH_ARCTIC_NSR,
                 <<"Shanghai", "Bering Strait", "Arctic", "Hamburg">>,
                 distArctic, 25,
                 "Seasonal shortcut. Impassable in Winter.") >>

\* const originPort = findNearestPort(origin)
ResolveOrigin(origin) == findNearestPort(origin, {})

\* The destination resolved with nothing excluded.
ResolveDest_NoExclusion(destination, oPort) == findNearestPort(destination, {})

\* const destPort = findNearestPort(destination, new Set([originPort.name]))
ResolveDest(destination, oPort) == findNearestPort(destination, {oPort.name})

\* Only the order Shanghai, Hamburg is recognised.
isShanghaiHamburg_Forward(oPort, dPort) ==
  oPort.name = "Shanghai" /\ dPort.name = "Hamburg"

\* Only the order Hamburg, Shanghai is recognised.
isShanghaiHamburg_Backward(oPort, dPort) ==
  oPort.name = "Hamburg" /\ dPort.name = "Shanghai"

isShanghaiHamburg(oPort, dPort) ==
  \/ oPort.name = "Shanghai" /\ dPort.name = "Hamburg"
  \/ oPort.name = "Hamburg" /\ dPort.name = "Shanghai"

\* The sequence s back to front.
Reversed(s) == [i \in 1..Len(s) |-> s[Len(s) + 1 - i]]

\* The curated routes with their names turned to run from the requested
\* origin: back to front for a request from Hamburg.
RoutesFor_NamesFollowRequest(oPort, dPort) ==
  IF isShanghaiHamburg(oPort, dPort)
    THEN [threw |-> FALSE,
          value |-> [r \in 1..Len(getDetailedShanghaiHamburgRoutes) |->
                       IF oPort.name = "Shanghai"
                         THEN getDetailedShanghaiHamburgRoutes[r]
                         ELSE [getDetailedShanghaiHamburgRoutes[r] EXCEPT
                                 !.waypointNames = Reversed(@)]]]
    ELSE calculateDynamicRoutes(oPort, dPort)

\* calculateRoutes after the two ports are resolved.
RoutesFor(oPort, dPort) ==
  IF isShanghaiHamburg(oPort, dPort)
    THEN [threw |-> FALSE, value |-> getDetailedShanghaiHamburgRoutes]
    ELSE calculateDynamicRoutes(oPort, dPort)

calculateRoutes(origin, destination) ==
  LET oPort == ResolveOrigin(origin)
  IN  RoutesFor(oPort, ResolveDest(destination, oPort))

----------------------------------------------------------------------------
(* The calls made on the engine                                            *)

\* Raw coordinates handed to the engine: the two curated ports, points a
\* few hundredths of a degree off them, other ports, open-sea points, and
\* a point that is, to the four decimals kept here, as far from Shanghai as
\* from Busan.
Coords ==
  { <<12147, 3123>>, <<999, 5355>>, <<12150, 3120>>, <<1000, 5350>>,
    <<-7401, 4071>>, <<15121, -3387>>, <<0, 0>>, <<-17000, 2000>>,
    <<12750, 3000>> }

\* Origin/destination pairs of the direct findIntermediatePorts calls.
Pairs ==
  { <<<<12147, 3123>>, <<999, 5355>>>>, <<<<-7401, 4071>>, <<15121, -3387>>>>,
    <<<<0, 0>>, <<-17000, 2000>>>>, <<<<447, 5192>>, <<440, 5122>>>>,
    <<<<12750, 3000>>, <<12750, 3000>>>> }

\* Largest count of intermediate ports asked for directly.
MaxCount == 3

\* Largest number of catalog ports left un-excluded by the large exclusion
\* sets and avoid lists.
MaxLeft == 3

Prefix(s, n) == [i \in 1..n |-> s[i]]

\* Avoid lists: nothing, the first ports, or all but the last few ports.
AvoidLists ==
  {Prefix(catalog, n) : n \in {0, 3} \cup {Len(catalog) - k : k \in 0..MaxLeft}}

ExcludeSets == {Names(a) : a \in AvoidLists} \cup {{"Shanghai"}, {"Hamburg", "Rotterdam"}}

RegionLists == { <<>>, <<"Africa", "Middle East", "Asia">>, <<"Europe", "Asia">> }

NoPort == [name |-> "", country |-> "", coordinates |-> <<0, 0>>, region |-> ""]

\* DemoPage before the demo is started: no ports, no routes, no selection.
\* A value that may be null is a sequence of at most one element.
DemoPageInit ==
  [demoStarted |-> FALSE, isChangingRoute |-> FALSE, origin |-> <<>>,
   destination |-> <<>>, selectedRoute |-> <<>>, routes |-> <<>>]

\* GlobalMap2D while DemoPage does not render it.
Unmounted ==
  [mounted |-> FALSE, routes |-> <<>>, selectedRouteId |-> <<>>,
   pendingA |-> FALSE, pendingB |-> FALSE, setBy |-> "none"]

\* A polling subscription that was never made: no interval, no poll begun
\* or awaiting its response, no callback made.
NoPolling == [interval |-> "none", started |-> 0, inFlight |-> 0, delivered |-> 0]

\* No chat subscription made yet, by either strategy.
NoSubscriptions ==
  [polling |-> NoPolling,
   ws |-> [socket |-> "none", connected |-> FALSE, delivered |-> 0,
           fallback |-> NoPolling]]

Init ==
  /\ catalog = MAJOR_PORTS
  /\ pc = "idle"
  /\ call = [fn |-> "none"]
  /\ originPort = NoPort
  /\ destPort = NoPort
  /\ ret = [threw |-> FALSE, value |-> <<>>]
  /\ seen = {}
  /\ page = DemoPageInit
  /\ map = Unmounted
  /\ svc = NoSubscriptions

\* The names of the ports findIntermediatePorts picked for a list of routes.
PickedNames(routes) ==
  UNION { {routes[r].waypointNames[i] : i \in 2..(Len(routes[r].waypointNames) - 1)}
          : r \in 1..Len(routes) }

\* Every picked port taken out of MAJOR_PORTS instead of being noted in the
\* local set.
CatalogAfter_Spliced(picked) == SelectSeq(catalog, LAMBDA p : p.name \notin picked)

\* MAJOR_PORTS once a call has returned: the functions read it through
\* filter, which builds a new array, and through for-of; none assigns to it
\* or to a port in it.
CatalogAfter(picked) == catalog

\* One calculateRoutes call, from its two findNearestPort calls to its return.
CalculateRoutesCall(origin, destination) ==
  /\ pc = "idle"
  /\ LET oPort == ResolveOrigin(origin)
         dPort == ResolveDest(destination, oPort)
         routes == RoutesFor(oPort, dPort)
     IN  /\ originPort' = oPort
         /\ destPort' = dPort
         /\ ret' = routes
         /\ catalog' = CatalogAfter(IF isShanghaiHamburg(oPort, dPort) THEN {}
                                    ELSE PickedNames(routes.value))
  /\ pc' = "returned"

CallCalculateRoutes(origin, destination) ==
  /\ CalculateRoutesCall(origin, destination)
  /\ call' = [fn |-> "calculateRoutes", origin |-> origin, destination |-> destination]
  /\ UNCHANGED <<seen, page, map, svc>>

CallFindNearestPort(coord, excludeNames) ==
  /\ pc = "idle"
  /\ ret' = [threw |-> FALSE, value |-> findNearestPort(coord, excludeNames)]
  /\ call' = [fn |-> "findNearestPort", coord |-> coord, excludeNames |-> excludeNames]
  /\ pc' = "returned"
  /\ UNCHANGED <<catalog, originPort, destPort, seen, page, map, svc>>

CallFindIntermediatePorts(origin, destination, count, regions, avoid) ==
  /\ pc = "idle"
  /\ LET result == findIntermediatePorts(origin, destination, count, regions, avoid)
     IN  /\ ret' = result
         /\ call' = [fn |-> "findIntermediatePorts", origin |-> origin,
                     destination |-> destination, count |-> count,
                     regions |-> regions, avoid |-> avoid,
                     avoidAfter |-> AvoidAfter(avoid, result.value)]
         /\ catalog' = CatalogAfter(Names(result.value))
  /\ pc' = "returned"
  /\ UNCHANGED <<originPort, destPort, seen, page, map, svc>>

\* The caller takes the result; the engine keeps nothing between calls.
Return ==
  /\ pc = "returned"
  /\ pc' = "idle"
  /\ call' = [fn |-> "none"]
  /\ originPort' = NoPort
  /\ destPort' = NoPort
  /\ ret' = [threw |-> FALSE, value |-> <<>>]
  /\ UNCHANGED <<catalog, seen, page, map, svc>>

Next ==
  \/ \E o \in Coords, d \in Coords : CallCalculateRoutes(o, d)
  \/ \E c \in Coords, e \in ExcludeSets : CallFindNearestPort(c, e)
  \/ \E p \in Pairs, n \in 0..MaxCount, r \in RegionLists, a \in AvoidLists :
       CallFindIntermediatePorts(p[1], p[2], n, r, a)
  \/ Return

Spec == Init /\ [][Next]_vars

----------------------------------------------------------------------------
(* Repeated calculateRoutes calls, each recorded with what it returned     *)

\* The argument pairs the callers repeat: the curated pair and four pairs
\* that resolve to other ports.
RepeatArgs ==
  { << <<12147, 3123>>, <<999, 5355>> >>,
    << <<-7401, 4071>>, <<15121, -3387>> >>,
    << <<0, 0>>, <<-17000, 2000>> >>,
    << <<15121, -3387>>, <<0, 0>> >>,
    << <<12750, 3000>>, <<1000, 5350>> >> }

\* What a caller can compare of a returned list: whether the call threw and,
\* route by route, the waypoints, their names, the distance and the time.
Outcome(r) ==
  [threw |-> r.threw,
   routes |-> [i \in 1..Len(r.value) |->
                 [waypoints |-> r.value[i].waypoints,
                  waypointNames |-> r.value[i].waypointNames,
                  distance |-> r.value[i].distance,
                  estimatedTime |-> r.value[i].estimatedTime]]]

\* A calculateRoutes call whose arguments and outcome go into the history.
RecordedCalculateRoutes(origin, destination) ==
  /\ CalculateRoutesCall(origin, destination)
  /\ call' = [fn |-> "calculateRoutes", origin |-> origin, destination |-> destination,
              repeated |-> \E s \in seen : s.origin = origin /\ s.destination = destination]
  /\ seen' = seen \cup {[origin |-> origin, destination |-> destination,
                          outcome |-> Outcome(ret')]}
  /\ UNCHANGED <<page, map, svc>>

NextRepeat ==
  \/ \E a \in RepeatArgs : RecordedCalculateRoutes(a[1], a[2])
  \/ Return

SpecRepeat == Init /\ [][NextRepeat]_vars

----------------------------------------------------------------------------
(* Route rendering: WrapAwareLine of GlobalMap2D                           *)

\* The quotient of two numbers is kept as the fraction num / den, not
\* rounded.  den = 0 is the source's division by zero: NaN when num = 0,
\* an infinity otherwise.
Frac(num, den) == [num |-> num, den |-> den]

\* const deltaLon = toLon - fromLon
deltaLon(from, to) == to[1] - from[1]

\* A difference of exactly 180 degrees taken as a crossing too.
CrossesDateline_AtHalfTurn(from, to) == Abs(deltaLon(from, to)) >= 180 * 100

\* if (Math.abs(deltaLon) > 180)
CrossesDateline(from, to) == Abs(deltaLon(from, to)) > 180 * 100

\* The direction test turned round.
isGoingEast_Flipped(from, to) == deltaLon(from, to) > 0

isGoingEast(from, to) == deltaLon(from, to) < 0

totalDist(from, to) == 360 * 100 - Abs(deltaLon(from, to))

distToEdge(from, to) ==
  IF isGoingEast(from, to) THEN 180 * 100 - from[1] ELSE from[1] + 180 * 100

ratio(from, to) == Frac(distToEdge(from, to), totalDist(from, to))

\* fromLat + (toLat - fromLat) * ratio, over the denominator of ratio
midLat(from, to) ==
  LET r == ratio(from, to)
  IN  Frac(from[2] * r.den + (to[2] - from[2]) * r.num, r.den)

\* The seam overshot by a whole degree: 181 or -181.
edgeLon1_ByOneDegree(from, to) == IF isGoingEast(from, to) THEN 18100 ELSE -18100

\* 180.1 or -180.1
edgeLon1(from, to) == IF isGoingEast(from, to) THEN 18010 ELSE -18010

edgeLon2(from, to) == IF isGoingEast(from, to) THEN -18010 ELSE 18010

\* The props both branches give their lines; opacity in hundredths, the
\* stroke width in tenths as in a Route.
commonProps(route, isSelected, pulseOpacity) ==
  [stroke |-> route.color,
   strokeWidth |-> IF isSelected THEN route.strokeWidth
                   ELSE RDiv(route.strokeWidth * 6, 10),
   opacity |-> IF isSelected THEN pulseOpacity ELSE 30]

\* One <Line> element.
Line(from, to, props) == [from |-> from, to |-> to, props |-> props]

\* The <Line> elements WrapAwareLine renders for one pair of waypoints.
WrapAwareLine(from, to, route, isSelected, pulseOpacity) ==
  LET props == commonProps(route, isSelected, pulseOpacity)
  IN  IF CrossesDateline(from, to)
        THEN << Line(from, <<edgeLon1(from, to), midLat(from, to)>>, props),
                Line(<<edgeLon2(from, to), midLat(from, to)>>, to, props) >>
        ELSE << Line(from, to, props) >>

\* Waypoints handed to WrapAwareLine: longitudes over the whole range
\* [-180, 180] with both ends of it and two points within the seam's
\* overshoot of the prime meridian, three latitudes.
WrapLons == {-18000, -17000, -9000, -1000, -5, 0, 5, 1000, 9000, 17000, 18000}

WrapLats == {-3000, 1000, 2000}

WrapPoints == {<<lon, lat>> : lon \in WrapLons, lat \in WrapLats}

\* The colour and stroke width of a low-risk and of a medium-risk route.
RouteStyles ==
  { [color |-> "#5a9a7a", strokeWidth |-> 20],
    [color |-> "#e8a547", strokeWidth |-> 25] }

\* The pulse at its initial value and at its peak.
PulseOpacities == {60, 100}

\* One render of WrapAwareLine; the split branch's ratio is kept beside the
\* rendered lines.
RenderWrapAwareLine(from, to, route, isSelected, pulseOpacity) ==
  /\ pc = "idle"
  /\ ret' = IF CrossesDateline(from, to)
              THEN [threw |-> FALSE,
                    value |-> WrapAwareLine(from, to, route, isSelected, pulseOpacity),
                    ratio |-> ratio(from, to)]
              ELSE [threw |-> FALSE,
                    value |-> WrapAwareLine(from, to, route, isSelected, pulseOpacity)]
  /\ call' = [fn |-> "WrapAwareLine", from |-> from, to |-> to, route |-> route,
              isSelected |-> isSelected, pulseOpacity |-> pulseOpacity]
  /\ pc' = "returned"
  /\ UNCHANGED <<catalog, originPort, destPort, seen, page, map, svc>>

NextWrap ==
  \/ \E from \in WrapPoints, to \in WrapPoints, route \in RouteStyles,
        isSelected \in BOOLEAN, pulseOpacity \in PulseOpacities :
          RenderWrapAwareLine(from, to, route, isSelected, pulseOpacity)
  \/ Return

SpecWrap == Init /\ [][NextWrap]_vars

----------------------------------------------------------------------------
(* The distance functions called on their own                              *)

\* Latitudes and longitudes over their whole ranges, both poles and both
\* sides of the 180 degree meridian included.
GeoLats == {-9000, -3387, 0, 3123, 5355, 9000}

GeoLons == {-18000, -7401, 0, 999, 12147, 18000}

\* Longest waypoint list handed to calculateTotalDistance.
MaxPath == 3

\* The waypoints the lists are made of.
PathPoints == { <<12147, 3123>>, <<999, 5355>>, <<-7401, 4071>>, <<18000, 0>> }

\* The waypoint lists of at most MaxPath waypoints, the empty list included.
WaypointLists == UNION { [1..n -> PathPoints] : n \in 0..MaxPath }

CallCalculateDistance(lat1, lon1, lat2, lon2) ==
  /\ pc = "idle"
  /\ ret' = [threw |-> FALSE, value |-> calculateDistance(lat1, lon1, lat2, lon2)]
  /\ call' = [fn |-> "calculateDistance", lat1 |-> lat1, lon1 |-> lon1,
              lat2 |-> lat2, lon2 |-> lon2]
  /\ pc' = "returned"
  /\ UNCHANGED <<catalog, originPort, destPort, seen, page, map, svc>>

\* The loop bound one too far (i < waypoints.length): waypoints[i + 1] is
\* undefined at the last index and destructuring it throws.
TotalDistanceOutcome_ReadsPastEnd(waypoints) ==
  IF Len(waypoints) >= 1 THEN Threw
  ELSE [threw |-> FALSE, value |-> 0]

\* calculateTotalDistance as its caller meets it: the loop reads indices
\* i and i + 1 below waypoints.length only, so nothing in it throws.
TotalDistanceOutcome(waypoints) ==
  [threw |-> FALSE, value |-> calculateTotalDistance(waypoints)]

CallCalculateTotalDistance(waypoints) ==
  /\ pc = "idle"
  /\ ret' = TotalDistanceOutcome(waypoints)
  /\ call' = [fn |-> "calculateTotalDistance", waypoints |-> waypoints]
  /\ pc' = "returned"
  /\ UNCHANGED <<catalog, originPort, destPort, seen, page, map, svc>>

NextGeo ==
  \/ \E lat1 \in GeoLats, lon1 \in GeoLons, lat2 \in GeoLats, lon2 \in GeoLons :
       CallCalculateDistance(lat1, lon1, lat2, lon2)
  \/ \E w \in WaypointLists : CallCalculateTotalDistance(w)
  \/ Return

SpecGeo == Init /\ [][NextGeo]_vars

----------------------------------------------------------------------------
(* GlobalMap2D under DemoPage.  A state is one committed render; the       *)
(* effects whose dependencies changed in that render run together before   *)
(* the next event is handled, and the state updates they make are applied  *)
(* in one further render.  Dependencies are compared by value.  The 2D map *)
(* stays mounted: the 3D map DemoPage can swap in is not modelled.         *)

\* The ports the start screen offers: the curated pair and a third port.
DemoPortNames == {"Shanghai", "Hamburg", "New York"}

DemoPorts == {MAJOR_PORTS[k] : k \in {j \in 1..Len(MAJOR_PORTS) : MAJOR_PORTS[j].name \in DemoPortNames}}

\* No effect of GlobalMap2D is waiting to run.
Quiescent == ~map.pendingA /\ ~map.pendingB

\* DemoPage.handleStartDemo, from the start screen or from the route-change
\* dialog; fresh tells whether the port objects handed over are new ones.
\* The first start mounts GlobalMap2D, whose effects all run on mount.
handleStartDemo(oPort, dPort, fresh) ==
  /\ Quiescent
  /\ ~page.demoStarted \/ page.isChangingRoute
  /\ page' = [demoStarted |-> TRUE, isChangingRoute |-> FALSE,
              origin |-> <<oPort>>, destination |-> <<dPort>>,
              selectedRoute |-> <<>>, routes |-> <<>>]
  /\ map' = IF ~map.mounted
              THEN [mounted |-> TRUE, routes |-> <<>>, selectedRouteId |-> <<>>,
                    pendingA |-> TRUE, pendingB |-> TRUE, setBy |-> "none"]
              ELSE [map EXCEPT
                      !.pendingA = fresh \/ page.origin # <<oPort>>
                                     \/ page.destination # <<dPort>>,
                      !.pendingB = page.selectedRoute # <<>>]
  /\ UNCHANGED <<engine, svc>>

\* The Change Route button: setIsChangingRoute(true)
OpenRouteChange ==
  /\ Quiescent
  /\ page.demoStarted /\ ~page.isChangingRoute
  /\ page' = [page EXCEPT !.isChangingRoute = TRUE]
  /\ UNCHANGED <<engine, map, svc>>

\* The dialog's onCancel: setIsChangingRoute(false)
CancelRouteChange ==
  /\ Quiescent
  /\ page.isChangingRoute
  /\ page' = [page EXCEPT !.isChangingRoute = FALSE]
  /\ UNCHANGED <<engine, map, svc>>

\* DemoPage.handleRouteSelect called by RouteSelector with one of the routes
\* DemoPage handed it.
SelectInRouteSelector(route) ==
  /\ Quiescent
  /\ page.demoStarted /\ Len(page.routes) > 0
  /\ InSeq(route, page.routes)
  /\ page' = [page EXCEPT !.selectedRoute = <<route>>]
  /\ map' = [map EXCEPT !.pendingB = page.selectedRoute # <<route>>]
  /\ UNCHANGED <<engine, svc>>

\* GlobalMap2D.handleRouteClick on one of the routes the map draws.
handleRouteClick(route) ==
  /\ Quiescent
  /\ map.mounted
  /\ InSeq(route, map.routes)
  /\ map' = [map EXCEPT !.selectedRouteId = <<route.id>>, !.setBy = "click",
                        !.pendingB = page.selectedRoute # <<route>>]
  /\ page' = [page EXCEPT !.selectedRoute = <<route>>]
  /\ UNCHANGED <<engine, svc>>

\* The first route whose risk level is low.
FirstLowRisk(calculatedRoutes) ==
  calculatedRoutes[CHOOSE k \in 1..Len(calculatedRoutes) :
                     /\ calculatedRoutes[k].riskLevel = "low"
                     /\ \A j \in 1..(k - 1) : calculatedRoutes[j].riskLevel # "low"]

\* calculatedRoutes.find((r) => r.riskLevel === 'low') || calculatedRoutes[0]
bestRoute(calculatedRoutes) ==
  IF \E k \in 1..Len(calculatedRoutes) : calculatedRoutes[k].riskLevel = "low"
    THEN FirstLowRisk(calculatedRoutes)
    ELSE calculatedRoutes[1]

\* The best route is announced to the parent but not selected in the map.
AfterCalculateRoutes_NoSelect(m, p, r) ==
  IF r.threw THEN [map |-> m, page |-> p]
  ELSE [map  |-> [m EXCEPT !.routes = r.value],
        page |-> [p EXCEPT !.routes = r.value,
                           !.selectedRoute = <<bestRoute(r.value)>>]]

\* The try block of the route effect once calculateRoutes has run: a throw
\* is caught and leaves everything as it was; otherwise the routes and the
\* best route are set in the map and passed to DemoPage's setRoutes and
\* handleRouteSelect.
AfterCalculateRoutes(m, p, r) ==
  IF r.threw THEN [map |-> m, page |-> p]
  ELSE [map  |-> [m EXCEPT !.routes = r.value,
                           !.selectedRouteId = <<bestRoute(r.value).id>>,
                           !.setBy = "routeEffect"],
        page |-> [p EXCEPT !.routes = r.value,
                           !.selectedRoute = <<bestRoute(r.value)>>]]

\* The effect on [origin, destination].
RouteEffect(m, p) ==
  IF p.origin # <<>> /\ p.destination # <<>>
    THEN AfterCalculateRoutes(m, p, calculateRoutes(p.origin[1].coordinates,
                                                    p.destination[1].coordinates))
    ELSE [map  |-> [m EXCEPT !.routes = <<>>, !.selectedRouteId = <<>>,
                             !.setBy = "routeEffect"],
          page |-> p]

\* The effect on [selectedRouteFromParent].
ParentSelectionEffect(m, selectedRouteFromParent) ==
  IF selectedRouteFromParent # <<>>
    THEN [m EXCEPT !.selectedRouteId = <<selectedRouteFromParent[1].id>>,
                   !.setBy = "parentEffect"]
    ELSE m

\* The state after the waiting effects, a being the state after the first.
\* The second effect reads the selection of the render it was made in.
AfterEffects(a) ==
  /\ page' = a.page
  /\ map' = [(IF map.pendingB THEN ParentSelectionEffect(a.map, page.selectedRoute)
              ELSE a.map)
               EXCEPT !.pendingA = FALSE,
                      !.pendingB = a.page.selectedRoute # page.selectedRoute]

\* The waiting effects run, in the order they are declared.
RunEffects ==
  /\ map.mounted
  /\ ~Quiescent
  /\ AfterEffects(IF map.pendingA THEN RouteEffect(map, page)
                  ELSE [map |-> map, page |-> page])
  /\ UNCHANGED <<engine, svc>>

NextMap ==
  \/ \E oPort \in DemoPorts, dPort \in DemoPorts, fresh \in BOOLEAN :
       handleStartDemo(oPort, dPort, fresh)
  \/ OpenRouteChange
  \/ CancelRouteChange
  \/ \E k \in 1..Len(page.routes) : SelectInRouteSelector(page.routes[k])
  \/ \E k \in 1..Len(map.routes) : handleRouteClick(map.routes[k])
  \/ RunEffects

SpecMap == Init /\ [][NextMap]_vars

----------------------------------------------------------------------------
(* The chat subscriptions of messageService.js: one made with              *)
(* PollingStrategy, as ChatWidget makes it while it is open, and one made  *)
(* with WebSocketStrategy.  A poll is two steps, the interval's callback   *)
(* sending the request and the awaited response coming back.               *)

\* Most polls one interval begins.
MaxPolls == 2

\* Most messages the socket delivers.
MaxMessages == 2

\* setInterval(..., 5000)
IntervalSet(s) == [s EXCEPT !.interval = "set"]

\* The interval fires: chatAPI.getConversations(customerId) is sent and
\* awaited.
PollSent(s) == [s EXCEPT !.started = @ + 1, !.inFlight = @ + 1]

\* The awaited response arrives: callback(response.data)
PollAnswered(s) == [s EXCEPT !.inFlight = @ - 1, !.delivered = @ + 1]

\* The awaited request fails: the error is logged, the callback not called.
PollFailed(s) == [s EXCEPT !.inFlight = @ - 1]

\* clearInterval(interval)
IntervalCleared(s) == [s EXCEPT !.interval = "cleared"]

\* ChatWidget opens: messageService.subscribe with the polling strategy.
PollingSubscribe ==
  /\ svc.polling.interval = "none"
  /\ svc' = [svc EXCEPT !.polling = IntervalSet(@)]
  /\ UNCHANGED <<engine, page, map>>

PollingTick ==
  /\ svc.polling.interval = "set"
  /\ svc.polling.started < MaxPolls
  /\ svc' = [svc EXCEPT !.polling = PollSent(@)]
  /\ UNCHANGED <<engine, page, map>>

PollingResponse ==
  /\ svc.polling.inFlight > 0
  /\ svc' = [svc EXCEPT !.polling = PollAnswered(@)]
  /\ UNCHANGED <<engine, page, map>>

PollingError ==
  /\ svc.polling.inFlight > 0
  /\ svc' = [svc EXCEPT !.polling = PollFailed(@)]
  /\ UNCHANGED <<engine, page, map>>

\* ChatWidget closes or unmounts: the effect's cleanup unsubscribes.
PollingUnsubscribe ==
  /\ svc.polling.interval = "set"
  /\ svc' = [svc EXCEPT !.polling = IntervalCleared(@)]
  /\ UNCHANGED <<engine, page, map>>

\* WebSocketStrategy.subscribe: the socket is made and kept in connections.
WebSocketSubscribe ==
  /\ svc.ws.socket = "none"
  /\ svc' = [svc EXCEPT !.ws.socket = "open", !.ws.connected = TRUE]
  /\ UNCHANGED <<engine, page, map>>

\* ws.onmessage: callback(JSON.parse(event.data))
WebSocketMessage ==
  /\ svc.ws.socket = "open"
  /\ svc.ws.delivered < MaxMessages
  /\ svc' = [svc EXCEPT !.ws.delivered = @ + 1]
  /\ UNCHANGED <<engine, page, map>>

\* ws.onerror: the socket fails and a new PollingStrategy is subscribed with
\* the same callback; the subscription it returns goes to the event
\* dispatcher, which drops it.
WebSocketError ==
  /\ svc.ws.socket = "open"
  /\ svc' = [svc EXCEPT !.ws.socket = "failed", !.ws.fallback = IntervalSet(@)]
  /\ UNCHANGED <<engine, page, map>>

FallbackTick ==
  /\ svc.ws.fallback.interval = "set"
  /\ svc.ws.fallback.started < MaxPolls
  /\ svc' = [svc EXCEPT !.ws.fallback = PollSent(@)]
  /\ UNCHANGED <<engine, page, map>>

FallbackResponse ==
  /\ svc.ws.fallback.inFlight > 0
  /\ svc' = [svc EXCEPT !.ws.fallback = PollAnswered(@)]
  /\ UNCHANGED <<engine, page, map>>

FallbackError ==
  /\ svc.ws.fallback.inFlight > 0
  /\ svc' = [svc EXCEPT !.ws.fallback = PollFailed(@)]
  /\ UNCHANGED <<engine, page, map>>

\* The subscription's unsubscribe: ws.close(); connections.delete(customerId)
WebSocketUnsubscribe ==
  /\ svc.ws.connected
  /\ svc' = [svc EXCEPT !.ws.socket = "closed", !.ws.connected = FALSE]
  /\ UNCHANGED <<engine, page, map>>

NextMessages ==
  \/ PollingSubscribe
  \/ PollingTick
  \/ PollingResponse
  \/ PollingError
  \/ PollingUnsubscribe
  \/ WebSocketSubscribe
  \/ WebSocketMessage
  \/ WebSocketError
  \/ FallbackTick
  \/ FallbackResponse
  \/ FallbackError
  \/ WebSocketUnsubscribe

SpecMessages == Init /\ [][NextMessages]_vars

----------------------------------------------------------------------------
(* Properties                                                              *)

Returned(fn) == pc = "returned" /\ call.fn = fn

\* calculateRoutes has returned a list of routes.
RoutesReturned == Returned("calculateRoutes") /\ ~ret.threw

Curated == {originPort.name, destPort.name} = {"Shanghai", "Hamburg"}

\* calculateRoutes has returned the three synthesized routes.
Synthesized == RoutesReturned /\ ~Curated

\* The intermediate port names of a route: all names but the first and last.
Intermediates(route) ==
  {route.waypointNames[i] : i \in 2..(Len(route.waypointNames) - 1)}

\* C1: calculateRoutes returns exactly 4 routes when the resolved port names
\* are Shanghai and Hamburg, in either order, and exactly 3 routes for every
\* other resolved pair.
C1_RouteCount ==
  Returned("calculateRoutes") =>
    /\ ~ret.threw
    /\ Len(ret.value) = IF Curated THEN 4 ELSE 3

\* The curated pair met in the order Hamburg, Shanghai.
C1_Witness ==
  /\ RoutesReturned
  /\ originPort.name = "Hamburg" /\ destPort.name = "Shanghai"
  /\ Len(ret.value) = 4

\* C2: with the origin resolved to Shanghai and the destination to Hamburg,
\* the four curated routes come in the order Cape of Good Hope, Suez Canal,
\* Panama Canal, Northern Sea Route, with risk levels low, high, medium, high.
C2_CuratedOrder ==
  (Returned("calculateRoutes") /\ originPort.name = "Shanghai"
     /\ destPort.name = "Hamburg") =>
    /\ ~ret.threw
    /\ [i \in 1..Len(ret.value) |-> ret.value[i].name] =
         << "Cape of Good Hope (Standard)", "Suez Canal (Red Sea)",
            "Panama Canal (Westbound)", "Northern Sea Route (Arctic)" >>
    /\ [i \in 1..Len(ret.value) |-> ret.value[i].riskLevel] =
         << "low", "high", "medium", "high" >>

\* Shanghai to Hamburg from coordinates a little off both ports.
C2_Witness ==
  /\ RoutesReturned
  /\ call.origin # originPort.coordinates
  /\ call.destination # destPort.coordinates
  /\ originPort.name = "Shanghai" /\ destPort.name = "Hamburg"
  /\ ret.value[4].id = "fixed-arctic"

C4_CrossRouteDisjoint ==
  Synthesized =>
    /\ Intermediates(ret.value[1]) \cap Intermediates(ret.value[2]) = {}
    /\ Intermediates(ret.value[3]) \cap
         (Intermediates(ret.value[1]) \cup Intermediates(ret.value[2])) = {}

\* A call in which the Alternative corridor's allow-list still offers the
\* ports the Standard corridor took: both lists hold Asian ports.
C4_Witness ==
  /\ Synthesized
  /\ \E p \in Intermediates(ret.value[1]), q \in Intermediates(ret.value[2]) :
       \E i, j \in 1..Len(catalog) :
         /\ catalog[i].name = p /\ catalog[j].name = q
         /\ catalog[i].region = "Asia" /\ catalog[j].region = "Asia"
  /\ Cardinality(Intermediates(ret.value[3])) = 1

\* The distance from a coordinate to a port, as findNearestPort measures it.
DistTo(coord, port) ==
  calculateDistance(coord[2], coord[1], port.coordinates[2], port.coordinates[1])

\* C5: within one synthesized route no intermediate port is selected twice:
\* the ports findIntermediatePorts returns are pairwise distinct, and so are
\* the intermediate names of every synthesized route.
C5_NoRepeatInRoute ==
  /\ (Returned("findIntermediatePorts") /\ ~ret.threw) =>
       \A i, j \in 1..Len(ret.value) :
         i # j => ret.value[i].name # ret.value[j].name
  /\ Synthesized =>
       \A r \in 1..Len(ret.value) :
         \A i, j \in 2..(Len(ret.value[r].waypointNames) - 1) :
           i # j => ret.value[r].waypointNames[i] # ret.value[r].waypointNames[j]

\* A call where the exclusion decides: the port of an earlier slot is also
\* the nearest candidate, among those of the first slot, to a later target.
C5_Witness ==
  /\ Returned("findIntermediatePorts") /\ ~ret.threw
  /\ Len(ret.value) = 3
  /\ \E i \in 1..2 :
       LET t == SlotTarget(call.origin, call.destination, call.count, i + 1)
           c == Candidates(call.regions, Names(call.avoid))
       IN  BestScan(t[2], t[1], c, 1, c[1], Infinity) = ret.value[i]

\* C6: for every non-curated pair the Standard corridor has 3 intermediate
\* ports, the Alternative 2 and the Express 1 (5, 4 and 3 waypoints), each
\* waypoint list beginning at the resolved origin port and ending at the
\* resolved destination port.
C6_IntermediateCounts ==
  Synthesized =>
    /\ Len(ret.value) = 3
    /\ \A r \in 1..3 :
         LET w == ret.value[r].waypoints
         IN  /\ Len(w) = 6 - r
             /\ Len(ret.value[r].waypointNames) - 2 = 4 - r
             /\ w[1] = originPort.coordinates
             /\ w[Len(w)] = destPort.coordinates

\* Synthesized routes for raw coordinates that are no port's coordinates.
C6_Witness ==
  /\ Synthesized
  /\ call.origin # originPort.coordinates
  /\ call.destination # destPort.coordinates
  /\ Len(ret.value[1].waypoints) = 5
  /\ Len(ret.value[3].waypoints) = 3

NotExcluded == {i \in 1..Len(catalog) : catalog[i].name \notin call.excludeNames}

\* C7: whenever some catalog port is not excluded, findNearestPort returns
\* the non-excluded port at minimum distance, and among several at that
\* distance the first in catalog order.
C7_NearestFirstMinimal ==
  (Returned("findNearestPort") /\ NotExcluded # {}) =>
    \E i \in NotExcluded :
      /\ ret.value = catalog[i]
      /\ \A j \in NotExcluded :
           /\ DistTo(call.coord, catalog[i]) <= DistTo(call.coord, catalog[j])
           /\ j < i => DistTo(call.coord, catalog[i]) < DistTo(call.coord, catalog[j])

\* A tie: another non-excluded port is exactly as near as the one returned.
C7_Witness ==
  /\ Returned("findNearestPort")
  /\ \E i, j \in NotExcluded :
       /\ ret.value = catalog[i]
       /\ i < j
       /\ DistTo(call.coord, catalog[i]) = DistTo(call.coord, catalog[j])

\* C8: findNearestPort never returns a port whose name is excluded; with
\* every catalog port excluded it reports a failure instead of a port.
C8_NeverReturnsExcluded ==
  Returned("findNearestPort") =>
    \/ ret.threw
    \/ ret.value.name \notin call.excludeNames

\* The ports an avoid list leaves for findIntermediatePorts.
Available == {i \in 1..Len(catalog) : catalog[i].name \notin Names(call.avoid)}

\* C9: asked for more intermediate ports than there are un-excluded catalog
\* ports, findIntermediatePorts does not fail: it returns the shorter list
\* of the ports that were available, all of them catalog ports.
C9_ExhaustedReturnsShorter ==
  (Returned("findIntermediatePorts") /\ call.count > Cardinality(Available)) =>
    /\ ~ret.threw
    /\ Len(ret.value) = Cardinality(Available)
    /\ \A k \in 1..Len(ret.value) : \E i \in Available : ret.value[k] = catalog[i]

\* The great-circle length of leg i of a waypoint list, km with four decimals.
Leg(w, i) == calculateDistance(w[i][2], w[i][1], w[i + 1][2], w[i + 1][1])

\* The sum of the first n legs of a waypoint list.
RECURSIVE PathLength(_, _)
PathLength(w, n) == IF n = 0 THEN 0 ELSE PathLength(w, n - 1) + Leg(w, n)

\* The sum of the first n legs, each rounded to a whole kilometre.
RECURSIVE RoundedLegsLength(_, _)
RoundedLegsLength(w, n) ==
  IF n = 0 THEN 0 ELSE RoundedLegsLength(w, n - 1) + MathRound(Leg(w, n))

\* C10: every returned route's distance is the sum of the great-circle
\* distances between its consecutive waypoints, rounded to the nearest
\* integer once, after the summation.
C10_DistanceRoundedOnce ==
  RoutesReturned =>
    \A r \in 1..Len(ret.value) :
      LET w == ret.value[r].waypoints
      IN  ret.value[r].distance = MathRound(PathLength(w, Len(w) - 1))

\* A returned route for which rounding every leg would give another total.
C10_Witness ==
  /\ RoutesReturned
  /\ \E r \in 1..Len(ret.value) :
       LET w == ret.value[r].waypoints
       IN  /\ ret.value[r].distance = MathRound(PathLength(w, Len(w) - 1))
           /\ ret.value[r].distance # RoundedLegsLength(w, Len(w) - 1)

\* The divisor the source writes beside each route id.
SpeedDivisor(id) ==
  CASE id = "fixed-cape" -> 35
    [] id = "fixed-suez" -> 32
    [] id = "fixed-panama" -> 38
    [] id = "fixed-arctic" -> 25
    [] id = "dyn-safe-1" -> 35
    [] id = "dyn-safe-2" -> 35
    [] id = "dyn-express" -> 38
    [] OTHER -> 0

\* t is the quotient n / d rounded to the nearest integer, a half going up.
IsRounded(t, n, d) == 2 * d * t <= 2 * n + d /\ 2 * n + d < 2 * d * (t + 1)

\* C11: every returned route's estimatedTime is its distance divided by the
\* route's own non-zero divisor (35, 32, 38, 25 for the curated Cape, Suez,
\* Panama and Arctic routes; 35, 35, 38 for Standard, Alternative and
\* Express), rounded to the nearest integer.
C11_EstimatedTime ==
  RoutesReturned =>
    \A r \in 1..Len(ret.value) :
      LET route == ret.value[r]
          d == SpeedDivisor(route.id)
      IN  d # 0 /\ IsRounded(route.estimatedTime, route.distance, d)

\* An Express, Suez or Arctic route whose quotient was rounded upwards.
C11_Witness ==
  /\ RoutesReturned
  /\ \E r \in 1..Len(ret.value) :
       /\ ret.value[r].id \in {"dyn-express", "fixed-suez", "fixed-arctic"}
       /\ ret.value[r].estimatedTime * SpeedDivisor(ret.value[r].id)
            > ret.value[r].distance
       /\ IsRounded(ret.value[r].estimatedTime, ret.value[r].distance,
                    SpeedDivisor(ret.value[r].id))

\* C12: within the list one calculateRoutes call returns, no two routes have
\* the same id.
C12_UniqueIds ==
  RoutesReturned =>
    \A i, j \in 1..Len(ret.value) :
      i # j => ret.value[i].id # ret.value[j].id

\* The three synthesized routes returned under their three ids.
C12_Witness ==
  /\ RoutesReturned
  /\ Len(ret.value) = 3
  /\ {ret.value[i].id : i \in 1..3} = {"dyn-safe-1", "dyn-safe-2", "dyn-express"}

Rendered == Returned("WrapAwareLine")

\* C15: for two consecutive waypoints whose longitudes differ by at most 180
\* degrees in absolute value, exactly 180 included, exactly one segment is
\* emitted, from the first point to the second, both unchanged.
C15_SingleSegment ==
  (Rendered /\ Abs(call.to[1] - call.from[1]) <= 18000) =>
    /\ Len(ret.value) = 1
    /\ ret.value[1].from = call.from
    /\ ret.value[1].to = call.to

\* A pair exactly 180 degrees apart rendered as one segment.
C15_Witness ==
  /\ Rendered
  /\ Abs(call.to[1] - call.from[1]) = 18000
  /\ Len(ret.value) = 1
  /\ ret.value[1].from = call.from /\ ret.value[1].to = call.to

\* C16: for waypoints A and B whose longitudes differ by more than 180
\* degrees in absolute value, exactly two sub-segments are emitted, A to
\* (e1, c) and (e2, c) to B with one crossing latitude c, where e1 = 180.1
\* and e2 = -180.1 when lonB - lonA < 0, and e1 = -180.1 and e2 = 180.1
\* otherwise.
C16_TwoSubSegments ==
  (Rendered /\ Abs(call.to[1] - call.from[1]) > 18000) =>
    /\ Len(ret.value) = 2
    /\ ret.value[1].from = call.from
    /\ ret.value[2].to = call.to
    /\ ret.value[1].to[2] = ret.value[2].from[2]
    /\ IF call.to[1] - call.from[1] < 0
         THEN ret.value[1].to[1] = 18010 /\ ret.value[2].from[1] = -18010
         ELSE ret.value[1].to[1] = -18010 /\ ret.value[2].from[1] = 18010

\* A pair split on the way from -170 to 170 degrees: out at -180.1, back in
\* at 180.1, at one latitude between the two of the pair.
C16_Witness ==
  /\ Rendered
  /\ call.from[1] = -17000 /\ call.to[1] = 17000
  /\ call.from[2] # call.to[2]
  /\ Len(ret.value) = 2
  /\ ret.value[1].to[1] = -18010 /\ ret.value[2].from[1] = 18010
  /\ ret.value[1].to[2] = ret.value[2].from[2]
  /\ ret.value[1].to[2].den # 0

\* The fraction f is a number and lies in [lo, hi].
FracWithin(f, lo, hi) == f.den > 0 /\ lo * f.den <= f.num /\ f.num <= hi * f.den

\* The fraction f is a number and lies strictly between lo and hi.
FracInside(f, lo, hi) == f.den > 0 /\ lo * f.den < f.num /\ f.num < hi * f.den

Min(a, b) == IF a <= b THEN a ELSE b

Max(a, b) == IF a <= b THEN b ELSE a

\* C17: for every split segment whose two longitudes lie in [-180, 180] the
\* ratio distToEdge / totalDist lies in [0, 1] and the crossing latitude
\* lies between latA and latB, strictly between them when latA differs from
\* latB and neither endpoint is on the 180 or -180 meridian.
C17_CrossingLatitudeBetween ==
  (/\ Rendered
   /\ Len(ret.value) = 2
   /\ {call.from[1], call.to[1]} \subseteq -18000..18000) =>
    LET latA == call.from[2]
        latB == call.to[2]
        c == ret.value[1].to[2]
    IN  /\ FracWithin(ret.ratio, 0, 1)
        /\ FracWithin(c, Min(latA, latB), Max(latA, latB))
        /\ (/\ latA # latB
            /\ {call.from[1], call.to[1]} \cap {-18000, 18000} = {}) =>
              FracInside(c, Min(latA, latB), Max(latA, latB))

\* C18: calculateDistance is symmetric: the distance from a to b equals the
\* distance from b to a, for all coordinate pairs a and b.
C18_DistanceSymmetric ==
  Returned("calculateDistance") =>
    ret.value = calculateDistance(call.lat2, call.lon2, call.lat1, call.lon1)

\* Two points that differ in latitude and in longitude, a positive distance
\* apart in both directions.
C18_Witness ==
  /\ Returned("calculateDistance")
  /\ call.lat1 # call.lat2 /\ Abs(call.lat1) # Abs(call.lat2)
  /\ call.lon1 # call.lon2
  /\ ret.value > 0
  /\ ret.value = calculateDistance(call.lat2, call.lon2, call.lat1, call.lon1)

\* C20: calculateTotalDistance returns 0, without failing, for an empty
\* waypoint list and for a list of a single waypoint.
C20_DegenerateListsGiveZero ==
  (Returned("calculateTotalDistance") /\ Len(call.waypoints) <= 1) =>
    ~ret.threw /\ ret.value = 0

\* A list of one waypoint measured as 0.
C20_Witness ==
  /\ Returned("calculateTotalDistance")
  /\ Len(call.waypoints) = 1
  /\ ~ret.threw /\ ret.value = 0

\* The names taken before slot i of a returned findIntermediatePorts call:
\* the avoid list's and those of the slots before i.
UsedBefore(i) == Names(call.avoid) \cup {ret.value[j].name : j \in 1..(i - 1)}

\* The catalog ports of the allowed regions still un-used at slot i.
AllowedAt(i) ==
  {k \in 1..Len(catalog) :
     /\ catalog[k].name \notin UsedBefore(i)
     /\ InSeq(catalog[k].region, call.regions)}

\* The region of the catalog port of that name.
RegionOf(name) == MAJOR_PORTS[CHOOSE k \in 1..Len(MAJOR_PORTS) : MAJOR_PORTS[k].name = name].region

\* C21: with a region allow-list, the port of each slot is an un-used port
\* of an allowed region whenever one exists at that slot, and some un-used
\* port otherwise; and over the shipped catalog every Standard intermediate
\* lies in Africa, Middle East or Asia and every Alternative intermediate in
\* Europe or Asia.
C21_RegionAllowList ==
  /\ (Returned("findIntermediatePorts") /\ ~ret.threw /\ Len(call.regions) > 0) =>
       \A i \in 1..Len(ret.value) :
         IF AllowedAt(i) # {}
         THEN \E k \in AllowedAt(i) : catalog[k] = ret.value[i]
         ELSE /\ ret.value[i].name \notin UsedBefore(i)
              /\ InSeq(ret.value[i], catalog)
  /\ Synthesized =>
       /\ \A n \in Intermediates(ret.value[1]) :
            RegionOf(n) \in {"Africa", "Middle East", "Asia"}
       /\ \A n \in Intermediates(ret.value[2]) : RegionOf(n) \in {"Europe", "Asia"}

\* A call whose allow-list runs dry: an early slot takes a port of an allowed
\* region that was nearer than no allowed one, and a later slot, with every
\* allowed port used, falls back to a port outside the allowed regions.
C21_Witness ==
  /\ Returned("findIntermediatePorts") /\ ~ret.threw /\ Len(call.regions) > 0
  /\ \E i, j \in 1..Len(ret.value) :
       /\ i < j
       /\ AllowedAt(i) # {}
       /\ InSeq(ret.value[i].region, call.regions)
       /\ \E k \in 1..Len(catalog) :
            /\ catalog[k].name \notin UsedBefore(i)
            /\ ~InSeq(catalog[k].region, call.regions)
       /\ AllowedAt(j) = {}
       /\ ~InSeq(ret.value[j].region, call.regions)

\* The point at fraction i / (count + 1) of the way from the origin to the
\* destination of a findIntermediatePorts call, in longitude and latitude.
InterpolatedAt(i) ==
  << call.origin[1] + RDiv((call.destination[1] - call.origin[1]) * i, call.count + 1),
     call.origin[2] + RDiv((call.destination[2] - call.origin[2]) * i, call.count + 1) >>

\* The catalog ports eligible at slot i: the allowed un-used ones when there
\* are any, every un-used one otherwise.
EligibleAt(i) ==
  IF AllowedAt(i) # {} THEN AllowedAt(i)
  ELSE {k \in 1..Len(catalog) : catalog[k].name \notin UsedBefore(i)}

\* C22: the port of slot i is the eligible port nearest to the point at
\* fraction i / (count + 1) between origin and destination, and of several
\* eligible ports at that least distance the first in catalog order.
C22_NearestToInterpolated ==
  (Returned("findIntermediatePorts") /\ ~ret.threw) =>
    /\ Len(ret.value) = call.count
    /\ \A i \in 1..call.count :
         \E k \in EligibleAt(i) :
           /\ ret.value[i] = catalog[k]
           /\ \A m \in EligibleAt(i) :
                /\ DistTo(InterpolatedAt(i), catalog[k]) <= DistTo(InterpolatedAt(i), catalog[m])
                /\ DistTo(InterpolatedAt(i), catalog[k]) = DistTo(InterpolatedAt(i), catalog[m])
                     => k <= m

\* A slot decided by catalog order: two eligible ports at the same least
\* distance from the slot's point, the later one passed over.
C22_Witness ==
  /\ Returned("findIntermediatePorts") /\ ~ret.threw
  /\ \E i \in 1..call.count :
       \E k, m \in EligibleAt(i) :
         /\ k < m
         /\ ret.value[i] = catalog[k]
         /\ DistTo(InterpolatedAt(i), catalog[k]) = DistTo(InterpolatedAt(i), catalog[m])

\* C23: whenever the split branch is entered for two longitudes in
\* [-180, 180], 180 with -180 included, totalDist = 360 - |deltaLon| is not
\* zero, so that the ratio and the crossing latitude are numbers.
C23_TotalDistNonZero ==
  (/\ Rendered
   /\ Abs(call.to[1] - call.from[1]) > 18000
   /\ {call.from[1], call.to[1]} \subseteq -18000..18000) =>
    /\ totalDist(call.from, call.to) # 0
    /\ ret.ratio.den # 0
    /\ ret.value[1].to[2].den # 0 /\ ret.value[2].from[2].den # 0

\* C24: calculateRoutes called with the same coordinates as origin and as
\* destination succeeds: the resolved destination port differs from the
\* resolved origin port, which was excluded from its search, and every
\* returned route has at least 2 waypoints.
C24_SamePointSucceeds ==
  (Returned("calculateRoutes") /\ call.origin = call.destination) =>
    /\ ~ret.threw
    /\ originPort.name # destPort.name
    /\ originPort.coordinates # destPort.coordinates
    /\ Len(ret.value) > 0
    /\ \A r \in 1..Len(ret.value) :
         /\ Len(ret.value[r].waypoints) >= 2
         /\ Len(ret.value[r].waypointNames) >= 2

\* Routes for a point given twice whose nearest port, taken as origin, is
\* also the nearest port to the destination: the second nearest is resolved.
C24_Witness ==
  /\ Returned("calculateRoutes") /\ call.origin = call.destination
  /\ ~ret.threw
  /\ originPort = findNearestPort(call.destination, {})
  /\ destPort = findNearestPort(call.destination, {originPort.name})
  /\ originPort.name # destPort.name
  /\ Len(ret.value) = 3

\* C25 as stated: for every returned route, in both modes and for both
\* orders of the curated pair, waypointNames begins with the resolved origin
\* port's name and ends with the resolved destination port's name.
C25_NamesFromOriginToDestination ==
  RoutesReturned =>
    \A r \in 1..Len(ret.value) :
      /\ ret.value[r].waypointNames[1] = originPort.name
      /\ ret.value[r].waypointNames[Len(ret.value[r].waypointNames)] = destPort.name

\* C25 amended: every synthesized route's waypointNames begins with the
\* resolved origin port's name and ends with the resolved destination
\* port's; every curated route's begins with Shanghai and ends with Hamburg
\* for either order of the pair, so it runs from the resolved origin to the
\* resolved destination exactly when the origin resolves to Shanghai.
C25_NamesEndpoints ==
  /\ Synthesized =>
       \A r \in 1..Len(ret.value) :
         /\ ret.value[r].waypointNames[1] = originPort.name
         /\ ret.value[r].waypointNames[Len(ret.value[r].waypointNames)] = destPort.name
  /\ (RoutesReturned /\ Curated) =>
       \A r \in 1..Len(ret.value) :
         /\ ret.value[r].waypointNames[1] = "Shanghai"
         /\ ret.value[r].waypointNames[Len(ret.value[r].waypointNames)] = "Hamburg"

\* The curated routes returned for a request from Hamburg to Shanghai: the
\* names begin at the resolved destination.
C25_Witness ==
  /\ RoutesReturned /\ Curated
  /\ originPort.name = "Hamburg" /\ destPort.name = "Shanghai"
  /\ Len(ret.value) = 4
  /\ \A r \in 1..4 : ret.value[r].waypointNames[1] = destPort.name

\* C26: in every synthesized route no intermediate port is the route's own
\* resolved origin or destination port, so the entries of waypointNames are
\* pairwise distinct and no two consecutive waypoints coincide.
C26_EndpointsNotIntermediate ==
  Synthesized =>
    \A r \in 1..Len(ret.value) :
      /\ Intermediates(ret.value[r]) \cap {originPort.name, destPort.name} = {}
      /\ \A i, j \in 1..Len(ret.value[r].waypointNames) :
           i # j => ret.value[r].waypointNames[i] # ret.value[r].waypointNames[j]
      /\ \A i \in 1..(Len(ret.value[r].waypoints) - 1) :
           ret.value[r].waypoints[i] # ret.value[r].waypoints[i + 1]

\* The longitude span of a rendered line between its own endpoints.
Span(line) == Abs(line.to[1] - line.from[1])

\* A split segment whose two longitudes lie in [-180, 180].
SplitInRange ==
  /\ Rendered
  /\ Len(ret.value) = 2
  /\ {call.from[1], call.to[1]} \subseteq -18000..18000

\* C27 as stated: each of the two sub-segments of a split segment in range
\* spans at most 180 degrees of longitude between its own endpoints.
C27_SubSegmentsWithinHalfTurn ==
  SplitInRange => \A s \in 1..2 : Span(ret.value[s]) <= 18000

\* C27 amended: each sub-segment of a split segment in range spans at least
\* 0.1 and less than 180.1 degrees, and at most 180 degrees when the
\* waypoint it keeps lies at least 0.1 degrees from the prime meridian.
C27_SubSegmentsWithinOvershoot ==
  SplitInRange =>
    /\ \A s \in 1..2 : 10 <= Span(ret.value[s]) /\ Span(ret.value[s]) < 18010
    /\ Abs(call.from[1]) >= 10 => Span(ret.value[1]) <= 18000
    /\ Abs(call.to[1]) >= 10 => Span(ret.value[2]) <= 18000

\* A split from 0.05 degrees east to the -180 meridian: the first
\* sub-segment runs from 0.05 to 180.1, more than a half turn.
C27_Witness ==
  /\ SplitInRange
  /\ call.from[1] = 5 /\ call.to[1] = -18000
  /\ Span(ret.value[1]) = 18005
  /\ Span(ret.value[2]) = 10

C29_NoCallbackAfterUnsubscribe ==
  [][svc.polling.interval = "cleared" =>
       svc'.polling.delivered = svc.polling.delivered]_vars

\* The WebSocketStrategy subscription was made and has been unsubscribed.
WebSocketUnsubscribed == svc.ws.socket # "none" /\ ~svc.ws.connected

\* C30: after a WebSocketStrategy subscription is unsubscribed nothing
\* begun for it stays active: the polling fallback an earlier socket error
\* started is stopped too, and no callback is made any more.
C30_NothingActiveAfterUnsubscribe ==
  /\ [](WebSocketUnsubscribed => svc.ws.fallback.interval # "set")
  /\ [][WebSocketUnsubscribed =>
          /\ svc'.ws.delivered = svc.ws.delivered
          /\ svc'.ws.fallback.delivered = svc.ws.fallback.delivered
          /\ svc'.ws.fallback.started = svc.ws.fallback.started]_vars

====
